---------------------------- MODULE Spec2Model ----------------------------
(***************************************************************************)
(* docs/charts.py of tidwall/progsort: a script that holds the results of  *)
(* a benchmark run as three literal lists, converts the two series from    *)
(* nanoseconds to seconds and draws three grouped bar charts with pyplot,  *)
(* each saved to its own png file.                                         *)
(*                                                                         *)
(* Numbers.  TLC's integers are 32 bits wide and the durations go up to    *)
(* 216609456504, so an integer literal n of the script is written          *)
(* Int64(hi, lo) with n = hi * 10^9 + lo and 0 <= lo < 10^9.  A value of a *)
(* series is the decimal m * 10^-e, [m |-> Int64, e |-> Nat]: the literals *)
(* have e = 0 and a division by 1e9 adds 9 to e.  IEEE division is         *)
(* correctly rounded, so the float64 the script holds is the double        *)
(* nearest to that decimal; the model keeps the decimal.  Bar positions    *)
(* are in thousandths of an axis unit (0.25 is 250): the script's          *)
(* positions are sums of small integers and 0.25, all exact in binary.     *)
(* A python string is a sequence of one-character strings.                 *)
(***************************************************************************)
EXTENDS Integers, Sequences, FiniteSets, TLC

VARIABLES
    source,   \* the three literal lists of lines 40-42, as the script embeds them
    toppc,    \* the module-level statement to run next
    PROG,     \* module global PROG
    STD,      \* module global STD
    LABELS,   \* module global LABELS
    frames,   \* the locals and position of each call of chart
    figs,     \* pyplot's figure registry, in creation order
    gcf,      \* pyplot's current figure (an index into figs, 0: none)
    files,    \* the output files on disk
    run,      \* how many times the script has been started
    before,   \* history: the output files when this run started, and whether
              \* the run before it was complete
    cur,      \* the call whose statement ran last (0: none yet)
    preempts  \* how many times a call was preempted inside its body

vars == <<source, toppc, PROG, STD, LABELS, frames, figs, gcf, files, run, before, cur, preempts>>

---------------------------------------------------------------------------
(* Bounds of the model. *)

\* How many times the operator starts the script.
MaxRuns == 2

\* How many trailing points each embedded list may lack (SpecInput only).
MaxMissing == 1

\* How many times the scheduler takes the interpreter from a call that is
\* inside its body (SpecPar only).
MaxPreempt == 2

\* The bucket widths the generalised sliceBuckets of the specification is tried with.
MaxWidth == 6

---------------------------------------------------------------------------
(* Data: lines 8-42. *)

Int64(hi, lo) == <<hi, lo>>

Nanos(hi, lo) == [m |-> Int64(hi, lo), e |-> 0]

Str2(a, b) == <<a, b>>
Str3(a, b, c) == <<a, b, c>>
Str4(a, b, c, d) == <<a, b, c, d>>

Rec(impl, size, iters, hi, lo) ==
    [impl |-> impl, size |-> size, iters |-> iters, ns |-> Int64(hi, lo)]

\* The benchmark output the literals were copied from (the comment block).
RECORDS == <<
    Rec("progsort", 100, 59418, 0, 19674),
    Rec("progsort", 500, 29150, 0, 40506),
    Rec("progsort", 1000, 18669, 0, 63940),
    Rec("progsort", 5000, 5776, 0, 197322),
    Rec("progsort", 10000, 3722, 0, 298280),
    Rec("progsort", 50000, 1065, 0, 1098492),
    Rec("progsort", 100000, 464, 0, 2510135),
    Rec("progsort", 500000, 85, 0, 14014058),
    Rec("progsort", 1000000, 51, 0, 22202915),
    Rec("progsort", 5000000, 7, 0, 151768884),
    Rec("progsort", 10000000, 4, 0, 304130626),
    Rec("progsort", 50000000, 1, 2, 277216824),
    Rec("progsort", 100000000, 1, 3, 981873534),
    Rec("progsort", 500000000, 1, 19, 480695089),
    Rec("progsort", 1000000000, 1, 42, 395064737),
    Rec("stdlib", 100, 709266, 0, 1453),
    Rec("stdlib", 500, 114210, 0, 10621),
    Rec("stdlib", 1000, 49429, 0, 23992),
    Rec("stdlib", 5000, 7960, 0, 143065),
    Rec("stdlib", 10000, 3766, 0, 307078),
    Rec("stdlib", 50000, 674, 0, 1771503),
    Rec("stdlib", 100000, 313, 0, 3764269),
    Rec("stdlib", 500000, 50, 0, 21737094),
    Rec("stdlib", 1000000, 25, 0, 47554151),
    Rec("stdlib", 5000000, 2, 0, 502221224),
    Rec("stdlib", 10000000, 1, 1, 614043333),
    Rec("stdlib", 50000000, 1, 8, 444168939),
    Rec("stdlib", 100000000, 1, 18, 37104155),
    Rec("stdlib", 500000000, 1, 93, 730488701),
    Rec("stdlib", 1000000000, 1, 216, 609456504) >>

PROG_LITERAL_SHORT == <<
    Nanos(0, 19674), Nanos(0, 40506), Nanos(0, 63940), Nanos(0, 197322),
    Nanos(0, 298280), Nanos(0, 1098492), Nanos(0, 2510135), Nanos(0, 14014058),
    Nanos(0, 22202915), Nanos(0, 151768884), Nanos(0, 304130626),
    Nanos(2, 277216824), Nanos(3, 981873534), Nanos(42, 395064737) >>

\* Line 40.
PROG_LITERAL == <<
    Nanos(0, 19674), Nanos(0, 40506), Nanos(0, 63940), Nanos(0, 197322),
    Nanos(0, 298280), Nanos(0, 1098492), Nanos(0, 2510135), Nanos(0, 14014058),
    Nanos(0, 22202915), Nanos(0, 151768884), Nanos(0, 304130626),
    Nanos(2, 277216824), Nanos(3, 981873534), Nanos(19, 480695089),
    Nanos(42, 395064737) >>

\* Line 41.
STD_LITERAL == <<
    Nanos(0, 1453), Nanos(0, 10621), Nanos(0, 23992), Nanos(0, 143065),
    Nanos(0, 307078), Nanos(0, 1771503), Nanos(0, 3764269), Nanos(0, 21737094),
    Nanos(0, 47554151), Nanos(0, 502221224), Nanos(1, 614043333),
    Nanos(8, 444168939), Nanos(18, 37104155), Nanos(93, 730488701),
    Nanos(216, 609456504) >>

\* Line 42.
LABELS_LITERAL == <<
    Str3("1", "0", "0"), Str3("5", "0", "0"), Str2("1", "k"), Str2("5", "k"),
    Str3("1", "0", "k"), Str3("5", "0", "k"), Str4("1", "0", "0", "k"),
    Str4("5", "0", "0", "k"), Str2("1", "m"), Str2("5", "m"),
    Str3("1", "0", "m"), Str3("5", "0", "m"), Str4("1", "0", "0", "m"),
    Str4("5", "0", "0", "m"), Str2("1", "b") >>

\* The exponent of the divisor 1e9 of lines 45-46.
DivisorExp == 9

\* Line 55, in thousandths.
barWidth == 250

Milli(n) == n * 1000

CALLS_SAME_NAME == <<
    [start |-> 0, end |-> 5, name |-> "chart1.png"],
    [start |-> 5, end |-> 10, name |-> "chart1.png"],
    [start |-> 10, end |-> 15, name |-> "chart3.png"] >>

CALLS_TWO == <<
    [start |-> 0, end |-> 5, name |-> "chart1.png"],
    [start |-> 5, end |-> 15, name |-> "chart2.png"] >>

\* Lines 74-76: the three calls of chart, in order.
CALLS == <<
    [start |-> 0, end |-> 5, name |-> "chart1.png"],
    [start |-> 5, end |-> 10, name |-> "chart2.png"],
    [start |-> 10, end |-> 15, name |-> "chart3.png"] >>

NCalls == Len(CALLS)
CallIds == 1..NCalls
Names == {CALLS[k].name : k \in CallIds}

\* The module-level position of call k, and the one after it.
CallPc(k) == <<"call", k>>
TopPc(s) == <<s, 0>>
AfterCallSkip(k) == IF k + 1 < NCalls THEN CallPc(k + 2) ELSE TopPc("done")
AfterCall(k) == IF k < NCalls THEN CallPc(k + 1) ELSE TopPc("done")

---------------------------------------------------------------------------
(* numpy, python and pyplot as the script uses them. *)

Min(a, b) == IF a < b THEN a ELSE b

NpDivideTwice(xs, exp) == [i \in DOMAIN xs |-> [m |-> xs[i].m, e |-> xs[i].e + exp + exp]]

\* np.divide(xs, 10^exp): every element divided, the list's length kept.
NpDivide(xs, exp) == [i \in DOMAIN xs |-> [m |-> xs[i].m, e |-> xs[i].e + exp]]

SliceShifted(xs, start, end) == SubSeq(xs, start + 2, Min(end + 1, Len(xs)))

\* xs[start:end] for 0 <= start <= end: indices past the end are clamped.
Slice(xs, start, end) == SubSeq(xs, start + 1, Min(end, Len(xs)))

\* np.arange(n) as positions.
Arange(n) == [i \in 1..n |-> Milli(i - 1)]

ShiftTwice(xs) == [i \in DOMAIN xs |-> xs[i] + barWidth + barWidth]

\* [x + barWidth for x in xs]
Shift(xs) == [i \in DOMAIN xs |-> xs[i] + barWidth]

\* numpy broadcasting of two one-dimensional shapes.
Broadcastable(a, b) == a = b \/ a = 1 \/ b = 1
BroadcastLen(a, b) == IF a = 1 THEN b ELSE a
BroadcastTo(xs, n) == [i \in 1..n |-> IF Len(xs) = 1 THEN xs[1] ELSE xs[i]]

\* plt.bar(x, height, color, width, edgecolor, label): one container of bars,
\* each centred on its x (align = 'center' is the default).
BarContainer(x, height, color, label) ==
    LET n == BroadcastLen(Len(x), Len(height)) IN
    [x |-> BroadcastTo(x, n), height |-> BroadcastTo(height, n), width |-> barWidth,
     color |-> color, edgecolor |-> "grey", label |-> label]

\* The figure plt.subplots(figsize = (12, 8)) creates: one empty axes.
NewFigure ==
    [figsize |-> <<12, 8>>, bars |-> <<>>, xlabel |-> "", ylabel |-> "",
     xlabelweight |-> "normal", ylabelweight |-> "normal",
     ticks |-> <<>>, ticklabels |-> <<>>, ticksset |-> FALSE,
     legend |-> <<>>, legendshown |-> FALSE]

\* A file on disk: absent, a stale chart of an earlier version, a partial
\* write, or the image of a figure.
File(kind, fig) == [kind |-> kind, fig |-> fig]
Absent == File("absent", NewFigure)
Stale == File("stale", NewFigure)
Partial == File("partial", NewFigure)
Png(fig) == File("png", fig)

IdleFrame ==
    [pc |-> "idle", error |-> "", PROGP |-> <<>>, STDP |-> <<>>, LABELSP |-> <<>>,
     br1 |-> <<>>, br2 |-> <<>>, br3 |-> <<>>]

\* A call that has started and has not ended.
Running(k) == frames[k].pc \notin {"idle", "ready", "returned", "raised"}

\* A statement of call k runs next: the call that ran last is preempted if it
\* is inside its body.
Preempting(k) == cur \in CallIds \ {k} /\ Running(cur)

Scheduled(k) ==
    /\ Preempting(k) => preempts < MaxPreempt
    /\ cur' = k
    /\ preempts' = IF Preempting(k) THEN preempts + 1 ELSE preempts

---------------------------------------------------------------------------
(* The script, statement by statement. *)

Literals == [prog |-> PROG_LITERAL, std |-> STD_LITERAL, labels |-> LABELS_LITERAL]

\* The embedded lists with up to MaxMissing trailing points missing from each.
Truncations(xs) == {Slice(xs, 0, n) : n \in (Len(xs) - MaxMissing)..Len(xs)}

\* The state of a fresh python process; the disk and the history are kept.
Fresh ==
    /\ toppc = TopPc("l40")
    /\ PROG = <<>>
    /\ STD = <<>>
    /\ LABELS = <<>>
    /\ frames = [k \in CallIds |-> IdleFrame]
    /\ figs = <<>>
    /\ gcf = 0
    /\ cur = 0
    /\ preempts = 0

Init ==
    /\ source = Literals
    /\ Fresh
    /\ files \in [Names -> {Absent, Stale}]
    /\ run = 1
    /\ before = [complete |-> FALSE, files |-> files]

InitInput ==
    /\ source \in [prog : Truncations(PROG_LITERAL), std : Truncations(STD_LITERAL),
                   labels : Truncations(LABELS_LITERAL)]
    /\ Fresh
    /\ files \in [Names -> {Absent, Stale}]
    /\ run = 1
    /\ before = [complete |-> FALSE, files |-> files]

InitPar ==
    /\ source = Literals
    /\ Fresh
    /\ files = [n \in Names |-> Absent]
    /\ run = 1
    /\ before = [complete |-> FALSE, files |-> files]

\* Lines 40-42.
Load ==
    /\ toppc = TopPc("l40")
    /\ PROG' = source.prog
    /\ STD' = source.std
    /\ LABELS' = source.labels
    /\ toppc' = TopPc("l45")
    /\ UNCHANGED <<source, frames, figs, gcf, files, run, before, cur, preempts>>

\* Line 45.
ConvertPROG ==
    /\ toppc = TopPc("l45")
    /\ PROG' = NpDivide(PROG, DivisorExp)
    /\ toppc' = TopPc("l46")
    /\ UNCHANGED <<source, STD, LABELS, frames, figs, gcf, files, run, before, cur, preempts>>

\* Line 46.
ConvertSTD ==
    /\ toppc = TopPc("l46")
    /\ STD' = NpDivide(STD, DivisorExp)
    /\ toppc' = CallPc(1)
    /\ UNCHANGED <<source, PROG, LABELS, frames, figs, gcf, files, run, before, cur, preempts>>

\* Lines 74-76: the module calls chart and waits for it to return.
Call(k) ==
    /\ toppc = CallPc(k)
    /\ frames[k].pc = "idle"
    /\ frames' = [frames EXCEPT ![k].pc = "ready"]
    /\ UNCHANGED <<source, toppc, PROG, STD, LABELS, figs, gcf, files, run, before, cur, preempts>>

\* What the return of call k does to the module: the next statement runs.
Returned(k) == IF toppc = CallPc(k) THEN AfterCall(k) ELSE toppc

UncaughtSwallowed(k) == Returned(k)

\* What an uncaught exception in call k does to the module: the script ends.
Uncaught(k) == IF toppc = CallPc(k) THEN TopPc("failed") ELSE toppc

\* A statement of call k that touches neither the disk nor the module's position.
Inside(k) ==
    /\ Scheduled(k)
    /\ UNCHANGED <<source, toppc, PROG, STD, LABELS, files, run, before>>

\* A drawing statement of call k: it draws on pyplot's current figure.
Draw(k, from, to, fig) ==
    /\ frames[k].pc = from
    /\ gcf \in DOMAIN figs
    /\ figs' = [figs EXCEPT ![gcf] = fig]
    /\ frames' = [frames EXCEPT ![k].pc = to]
    /\ UNCHANGED gcf
    /\ Inside(k)

\* Lines 50-52.
ChartSlice(k) ==
    /\ frames[k].pc = "ready"
    /\ frames' = [frames EXCEPT ![k] =
            [@ EXCEPT !.pc = "l56",
                      !.PROGP = Slice(PROG, CALLS[k].start, CALLS[k].end),
                      !.STDP = Slice(STD, CALLS[k].start, CALLS[k].end),
                      !.LABELSP = Slice(LABELS, CALLS[k].start, CALLS[k].end)]]
    /\ UNCHANGED <<figs, gcf>>
    /\ Inside(k)

FiguresReused == IF figs = <<>> THEN <<NewFigure>> ELSE figs

\* The registry after plt.subplots: a new figure, after those that exist.
FiguresAfterSubplots == Append(figs, NewFigure)

\* Lines 55-56: the new figure becomes the current one.
ChartSubplots(k) ==
    /\ frames[k].pc = "l56"
    /\ figs' = FiguresAfterSubplots
    /\ gcf' = Len(figs')
    /\ frames' = [frames EXCEPT ![k].pc = "l59"]
    /\ Inside(k)

\* Lines 59-61.
ChartPositions(k) ==
    /\ frames[k].pc = "l59"
    /\ LET br1 == Arange(Len(frames[k].PROGP))
           br2 == Shift(br1)
           br3 == Shift(br2)
       IN frames' = [frames EXCEPT ![k] =
            [@ EXCEPT !.pc = "l63", !.br1 = br1, !.br2 = br2, !.br3 = br3]]
    /\ UNCHANGED <<figs, gcf>>
    /\ Inside(k)

WithBars(fig, c) == [fig EXCEPT !.bars = Append(@, c)]

\* Line 63.
ChartBar1(k) ==
    /\ Broadcastable(Len(frames[k].br1), Len(frames[k].PROGP))
    /\ Draw(k, "l63", "l64",
            WithBars(figs[gcf], BarContainer(frames[k].br1, frames[k].PROGP, "r", "progsort.Sort")))

\* Line 64.
ChartBar2(k) ==
    /\ Broadcastable(Len(frames[k].br2), Len(frames[k].STDP))
    /\ Draw(k, "l64", "l65",
            WithBars(figs[gcf], BarContainer(frames[k].br2, frames[k].STDP, "g", "sort.Ints")))

\* A statement of call k raises: the call ends there.
Raise(k, from, error) ==
    /\ frames[k].pc = from
    /\ frames' = [frames EXCEPT ![k] = [@ EXCEPT !.pc = "raised", !.error = error]]
    /\ toppc' = Uncaught(k)
    /\ Scheduled(k)
    /\ UNCHANGED <<source, PROG, STD, LABELS, figs, gcf, run, before>>

\* Line 64 with x and height of shapes that do not broadcast: ValueError.
ChartBar2Error(k) ==
    /\ ~Broadcastable(Len(frames[k].br2), Len(frames[k].STDP))
    /\ Raise(k, "l64", "ValueError")
    /\ UNCHANGED files

\* Line 65.
ChartXlabel(k) ==
    Draw(k, "l65", "l66",
         [figs[gcf] EXCEPT !.xlabel = "Number of Ints", !.xlabelweight = "bold"])

\* Line 66.
ChartYlabel(k) ==
    Draw(k, "l66", "l67",
         [figs[gcf] EXCEPT !.ylabel = "Seconds", !.ylabelweight = "bold"])

\* [r + barWidth for r in range(n)]
TickPositions(n) == Shift(Arange(n))

\* Line 67.  With as many labels as ticks every matplotlib sets them; with a
\* different number, some releases raise ValueError and older ones set them.
ChartXticks(k) ==
    Draw(k, "l67", "l69",
         [figs[gcf] EXCEPT !.ticks = TickPositions(Len(frames[k].PROGP)),
                           !.ticklabels = frames[k].LABELSP,
                           !.ticksset = TRUE])

ChartXticksError(k) ==
    /\ Len(frames[k].LABELSP) # Len(frames[k].PROGP)
    /\ Raise(k, "l67", "ValueError")
    /\ UNCHANGED files

\* Line 69: one legend entry per labelled container of the current axes.
ChartLegend(k) ==
    Draw(k, "l69", "l70",
         [figs[gcf] EXCEPT !.legend = [i \in DOMAIN figs[gcf].bars |-> figs[gcf].bars[i].label],
                           !.legendshown = TRUE])

ExportedFirst == figs[1]

\* The figure plt.savefig writes: the current one.
Exported == figs[gcf]

\* Line 70: the current figure is written to the call's file, and chart returns.
ChartSavefig(k) ==
    /\ frames[k].pc = "l70"
    /\ gcf \in DOMAIN figs
    /\ files' = [files EXCEPT ![CALLS[k].name] = Png(Exported)]
    /\ frames' = [frames EXCEPT ![k].pc = "returned"]
    /\ toppc' = Returned(k)
    /\ Scheduled(k)
    /\ UNCHANGED <<source, PROG, STD, LABELS, figs, gcf, run, before>>

\* Line 70 when the export fails (the path is not writable, the disk is
\* full): the file is left as it was or partly written, and savefig raises.
ChartSavefigError(k) ==
    /\ Raise(k, "l70", "OSError")
    /\ \E f \in {files[CALLS[k].name], Partial} :
          files' = [files EXCEPT ![CALLS[k].name] = f]

\* The operator starts the script again: a new process, the same disk.
Rerun ==
    /\ toppc \in {TopPc("done"), TopPc("failed")}
    /\ run < MaxRuns
    /\ run' = run + 1
    /\ before' = [complete |-> (toppc = TopPc("done")), files |-> files]
    /\ toppc' = TopPc("l40")
    /\ PROG' = <<>>
    /\ STD' = <<>>
    /\ LABELS' = <<>>
    /\ frames' = [k \in CallIds |-> IdleFrame]
    /\ figs' = <<>>
    /\ gcf' = 0
    /\ cur' = 0
    /\ preempts' = 0
    /\ UNCHANGED <<source, files>>

ChartStep(k) ==
    \/ ChartSlice(k)
    \/ ChartSubplots(k)
    \/ ChartPositions(k)
    \/ ChartBar1(k)
    \/ ChartBar2(k)
    \/ ChartXlabel(k)
    \/ ChartYlabel(k)
    \/ ChartXticks(k)
    \/ ChartLegend(k)
    \/ ChartSavefig(k)
    \/ ChartSavefigError(k)

Next ==
    \/ Load
    \/ ConvertPROG
    \/ ConvertSTD
    \/ \E k \in CallIds : Call(k)
    \/ \E k \in CallIds : ChartStep(k)
    \/ Rerun

Spec == Init /\ [][Next]_vars

\* The script on embedded lists that lack points: the statements that reject
\* their arguments can fire.
NextInput ==
    \/ Next
    \/ \E k \in CallIds : ChartBar2Error(k)
    \/ \E k \in CallIds : ChartXticksError(k)

SpecInput == InitInput /\ [][NextInput]_vars

---------------------------------------------------------------------------
(* The rendering of the buckets in parallel that section 5 of the         *)
(* specification allows: the module starts the three calls of chart as    *)
(* threads of one process, which share the module's globals and pyplot,   *)
(* and waits for them.  The statements of chart are those of the script.  *)

Spawn ==
    /\ toppc = CallPc(1)
    /\ \A k \in CallIds : frames[k].pc = "idle"
    /\ frames' = [k \in CallIds |-> [frames[k] EXCEPT !.pc = "ready"]]
    /\ toppc' = TopPc("join")
    /\ UNCHANGED <<source, PROG, STD, LABELS, figs, gcf, files, run, before, cur, preempts>>

Join ==
    /\ toppc = TopPc("join")
    /\ \A k \in CallIds : frames[k].pc \in {"returned", "raised"}
    /\ toppc' = IF \A k \in CallIds : frames[k].pc = "returned"
                THEN TopPc("done") ELSE TopPc("failed")
    /\ UNCHANGED <<source, PROG, STD, LABELS, frames, figs, gcf, files, run, before, cur, preempts>>

NextPar ==
    \/ Load
    \/ ConvertPROG
    \/ ConvertSTD
    \/ Spawn
    \/ \E k \in CallIds : ChartStep(k)
    \/ Join

SpecPar == InitPar /\ [][NextPar]_vars

---------------------------------------------------------------------------
(* What the properties below are stated with. *)

\* The number of sweep points of the canonical sweep (LABELS has one tag each).
CanonPoints == 15

\* The width of the script's buckets: chart(0, 5), chart(5, 10), chart(10, 15).
BucketWidth == 5

CeilDiv(n, w) == (n + w - 1) \div w

Rendered == {k \in CallIds : frames[k].pc = "returned"}

PngFiles == {n \in DOMAIN files : files[n].kind = "png"}

ProgRecords == SelectSeq(RECORDS, LAMBDA r : r.impl = "progsort")
StdRecords == SelectSeq(RECORDS, LAMBDA r : r.impl = "stdlib")

\* ns nanoseconds in seconds: ns / 10^9.
Seconds(ns) == [m |-> ns, e |-> 9]

Digit(c) ==
    CASE c = "0" -> 0 [] c = "1" -> 1 [] c = "2" -> 2 [] c = "3" -> 3 [] c = "4" -> 4
      [] c = "5" -> 5 [] c = "6" -> 6 [] c = "7" -> 7 [] c = "8" -> 8 [] c = "9" -> 9

RECURSIVE ParseInt(_)
ParseInt(s) ==
    IF s = <<>> THEN 0 ELSE 10 * ParseInt(SubSeq(s, 1, Len(s) - 1)) + Digit(s[Len(s)])

\* The suffix table of the specification: {k: 1e3, m: 1e6, b: 1e9}.
SuffixTable == [k |-> 1000, m |-> 1000000, b |-> 1000000000]

\* The input size a label denotes.
SizeOf(label) ==
    LET last == label[Len(label)] IN
    IF last \in DOMAIN SuffixTable
    THEN ParseInt(SubSeq(label, 1, Len(label) - 1)) * SuffixTable[last]
    ELSE ParseInt(label)

\* The output identifier of the bucket at position k.
PositionName(k) == "chart" \o ToString(k) \o ".png"

\* The grouped bar chart of the points start .. end-1 of two series, as a
\* function of the series, the labels and the range alone.
ChartOf(prog, std, labels, start, end) ==
    LET last == IF end < Len(prog) THEN end ELSE Len(prog)
        n == IF last > start THEN last - start ELSE 0
    IN [figsize |-> <<12, 8>>,
        bars |-> << [x |-> [i \in 1..n |-> 1000 * (i - 1)],
                     height |-> [i \in 1..n |-> prog[start + i]],
                     width |-> 250, color |-> "r", edgecolor |-> "grey",
                     label |-> "progsort.Sort"],
                    [x |-> [i \in 1..n |-> 1000 * (i - 1) + 250],
                     height |-> [i \in 1..n |-> std[start + i]],
                     width |-> 250, color |-> "g", edgecolor |-> "grey",
                     label |-> "sort.Ints"] >>,
        xlabel |-> "Number of Ints", ylabel |-> "Seconds",
        xlabelweight |-> "bold", ylabelweight |-> "bold",
        ticks |-> [i \in 1..n |-> 1000 * (i - 1) + 250],
        ticklabels |-> [i \in 1..n |-> labels[start + i]],
        ticksset |-> TRUE,
        legend |-> <<"progsort.Sort", "sort.Ints">>, legendshown |-> TRUE]

\* The chart of bucket k of the module's series.
BucketChart(k) == ChartOf(PROG, STD, LABELS, CALLS[k].start, CALLS[k].end)

\* The buckets are contiguous from 0, not empty, and end where the labels end.
Partition ==
    /\ CALLS[1].start = 0
    /\ \A k \in CallIds : CALLS[k].start < CALLS[k].end
    /\ \A k \in CallIds : k > 1 => CALLS[k].start = CALLS[k - 1].end
    /\ CALLS[NCalls].end = Len(LABELS)

Left(c, i) == c.x[i] - c.width \div 2
Right(c, i) == c.x[i] + c.width \div 2

\* A series lacks points of the canonical sweep.
Incomplete == Len(source.prog) < CanonPoints \/ Len(source.std) < CanonPoints

SlicesAgree(k) ==
    /\ Len(frames[k].PROGP) = Len(frames[k].STDP)
    /\ Len(frames[k].STDP) = Len(frames[k].LABELSP)

---------------------------------------------------------------------------
(* C1 *)

\* C1 (as amended): the script has no bucket width parameter.  A complete
\* run renders the fixed buckets [0,5), [5,10), [10,15): ceil(15/5) = 3 of
\* them, contiguous from 0, not overlapping, covering [0, len(LABELS)), each
\* of exactly 5 labels, so that no remainder bucket occurs.
C1_FixedWidthBuckets ==
    toppc = TopPc("done") =>
        /\ Rendered = CallIds
        /\ Cardinality(Rendered) = CeilDiv(Len(LABELS), BucketWidth)
        /\ Partition
        /\ \A k \in CallIds : Len(frames[k].LABELSP) = BucketWidth

C1_Witness ==
    /\ toppc = TopPc("done")
    /\ Cardinality(Rendered) = 3
    /\ \A k \in CallIds : Len(frames[k].LABELSP) = 5

\* C1 as claimed: for every positive bucket width w a complete run renders
\* ceil(len(LABELS)/w) contiguous buckets that cover [0, len(LABELS)).
C1_AnyWidth ==
    toppc = TopPc("done") =>
        \A w \in 1..MaxWidth :
            /\ Cardinality(Rendered) = CeilDiv(Len(LABELS), w)
            /\ Partition

(* C2 *)

\* C2: with the two series of 15 points, a complete run leaves exactly 3
\* charts; chart k has 5 tick labels and, for each, one bar per
\* implementation: the points 5(k-1) .. 5k-1 of LABELS, PROG and STD.
C2_ThreeChartsOfFive ==
    toppc = TopPc("done") =>
        /\ Cardinality(PngFiles) = 3
        /\ \A k \in 1..3 :
              LET f == files[PositionName(k)].fig IN
              /\ Len(f.ticklabels) = 5
              /\ Len(f.bars) = 2
              /\ f.bars[1].label # f.bars[2].label
              /\ \A c \in 1..2 : Len(f.bars[c].height) = 5 /\ Len(f.bars[c].x) = 5
              /\ \A i \in 1..5 :
                    /\ f.ticklabels[i] = LABELS[5 * (k - 1) + i]
                    /\ f.bars[1].height[i] = PROG[5 * (k - 1) + i]
                    /\ f.bars[2].height[i] = STD[5 * (k - 1) + i]

C2_Witness ==
    /\ toppc = TopPc("done")
    /\ Len(PROG) = 15
    /\ Len(STD) = 15
    /\ \A n \in Names : files[n].kind = "png"

(* C3 *)

C4_FailFastInOrder ==
    \A k \in CallIds :
        /\ frames[k].pc # "idle" => \A j \in 1..(k - 1) : frames[j].pc = "returned"
        /\ frames[k].pc = "raised" =>
              /\ toppc = TopPc("failed")
              /\ Len(figs) = k
              /\ \A j \in CallIds :
                    /\ j > k => frames[j].pc = "idle"
                    /\ j > k => files[CALLS[j].name] = before.files[CALLS[j].name]
                    /\ j < k => files[CALLS[j].name] = Png(figs[j])

C4_Witness ==
    /\ frames[2].pc = "raised"
    /\ frames[2].error = "OSError"
    /\ files[CALLS[1].name] = Png(figs[1])
    /\ files[CALLS[2].name] = Partial
    /\ files[CALLS[3].name] = Stale

(* C5 *)

\* C5: after a complete run every output file is the chart of its bucket, a
\* function of the series, the labels and the bucket's range only; a
\* complete run that follows a complete run leaves every file as it found it.
C5_Idempotent ==
    toppc = TopPc("done") =>
        /\ \A k \in CallIds : files[CALLS[k].name] = Png(BucketChart(k))
        /\ before.complete => files = before.files

C5_Witness ==
    /\ toppc = TopPc("done")
    /\ run = 2
    /\ before.complete
    /\ files[CALLS[2].name].kind = "png"

(* C6 *)

\* C6: once converted, every value of PROG and STD is its record's ns/op
\* divided by 1e9, once; the conversion is over before a figure exists, and
\* every bar's height is such a value.  The record progsort/100, 19674
\* ns/op, is held and drawn as 0.000019674.
C6_SecondsOnce ==
    /\ toppc \notin {TopPc("l40"), TopPc("l45"), TopPc("l46")} =>
          /\ \A i \in 1..CanonPoints :
                /\ PROG[i] = Seconds(ProgRecords[i].ns)
                /\ STD[i] = Seconds(StdRecords[i].ns)
          /\ PROG[1] = [m |-> Int64(0, 19674), e |-> 9]
    /\ figs # <<>> => toppc \notin {TopPc("l40"), TopPc("l45"), TopPc("l46")}
    /\ \A j \in DOMAIN figs :
          \A c \in DOMAIN figs[j].bars :
              \A i \in DOMAIN figs[j].bars[c].height :
                  figs[j].bars[c].height[i] =
                      Seconds((IF c = 1 THEN ProgRecords ELSE StdRecords)[CALLS[j].start + i].ns)

C6_Witness ==
    /\ toppc = TopPc("done")
    /\ files[CALLS[1].name].kind = "png"
    /\ files[CALLS[1].name].fig.bars[1].height[1] = [m |-> Int64(0, 19674), e |-> 9]
    /\ files[CALLS[3].name].fig.bars[2].height[5] = [m |-> Int64(216, 609456504), e |-> 9]

(* C7 *)

\* C7: once loaded, PROG, STD and LABELS have 15 entries each; entry i of
\* PROG and of STD is the measurement of the record of the same input size,
\* the size labels[i] denotes under the suffix table; the sizes increase
\* strictly; and the three slices of every bucket are equally long.
C7_IndexAligned ==
    /\ toppc # TopPc("l40") =>
          /\ Len(PROG) = CanonPoints
          /\ Len(STD) = CanonPoints
          /\ Len(LABELS) = CanonPoints
          /\ Len(ProgRecords) = CanonPoints
          /\ Len(StdRecords) = CanonPoints
          /\ \A i \in 1..CanonPoints :
                /\ PROG[i].m = ProgRecords[i].ns
                /\ STD[i].m = StdRecords[i].ns
                /\ ProgRecords[i].size = SizeOf(LABELS[i])
                /\ StdRecords[i].size = SizeOf(LABELS[i])
                /\ i > 1 => SizeOf(LABELS[i - 1]) < SizeOf(LABELS[i])
    /\ \A k \in CallIds :
          frames[k].pc \notin {"idle", "ready"} =>
              /\ SlicesAgree(k)
              /\ Len(frames[k].PROGP) = CALLS[k].end - CALLS[k].start

C7_Witness ==
    /\ frames[3].pc = "l63"
    /\ Len(frames[3].PROGP) = 5
    /\ SizeOf(frames[3].LABELSP[5]) = 1000000000
    /\ frames[3].STDP[5].m = StdRecords[15].ns

(* C8 *)

\* C8: the bucket at position k is written to chart<k>.png and to no other
\* path, no two positions share a path (a run that starts with no output
\* file leaves as many charts as it rendered buckets), in every run.
C8_NameFromPosition ==
    /\ \A k \in CallIds :
          /\ CALLS[k].name = PositionName(k)
          /\ \A j \in CallIds : j # k => CALLS[j].name # CALLS[k].name
          /\ frames[k].pc = "returned" => files[PositionName(k)] = Png(figs[k])
    /\ (\A n \in Names : before.files[n] = Absent) => Cardinality(PngFiles) = Cardinality(Rendered)

C8_Witness ==
    /\ run = 2
    /\ toppc = TopPc("done")
    /\ \A n \in Names : before.files[n] = Absent
    /\ Cardinality(PngFiles) = 3

(* C9 *)

\* C9: in every chart on disk, each label of the bucket has two bars of the
\* same width, the second one bar width to the right of the first, so that
\* they touch without overlap or gap; the bars of one group end before those
\* of the next begin; tick i carries the label start + i and lies on group i.
C9_GroupedBars ==
    \A k \in CallIds :
        files[CALLS[k].name].kind = "png" =>
            LET f == files[CALLS[k].name].fig
                n == CALLS[k].end - CALLS[k].start
            IN /\ Len(f.bars) = 2
               /\ Len(f.ticks) = n
               /\ Len(f.ticklabels) = n
               /\ \A c \in 1..2 : Len(f.bars[c].x) = n /\ Len(f.bars[c].height) = n
               /\ f.bars[1].width = f.bars[2].width
               /\ \A i \in 1..n :
                     /\ f.bars[2].x[i] = f.bars[1].x[i] + f.bars[1].width
                     /\ Right(f.bars[1], i) = Left(f.bars[2], i)
                     /\ i < n => Right(f.bars[2], i) <= Left(f.bars[1], i + 1)
                     /\ f.ticklabels[i] = source.labels[CALLS[k].start + i]
                     /\ Left(f.bars[1], i) <= f.ticks[i]
                     /\ f.ticks[i] <= Right(f.bars[2], i)

C9_Witness ==
    /\ files[CALLS[2].name].kind = "png"
    /\ Len(files[CALLS[2].name].fig.bars[2].x) = 5
    /\ files[CALLS[2].name].fig.bars[2].x[2] = 1250
    /\ files[CALLS[2].name].fig.ticklabels[1] = Str3("5", "0", "k")

(* C10 *)

\* C10 (as amended): the calls of chart share pyplot's current figure.  A
\* call never changes PROG, STD or LABELS, and when the calls run one at a
\* time, in any order, none preempted inside its body, the file of each
\* rendered bucket is the chart of that bucket.
C10_OneAtATime ==
    /\ toppc \in {TopPc("join"), TopPc("done"), TopPc("failed")} =>
          /\ PROG = [i \in DOMAIN source.prog |-> Seconds(source.prog[i].m)]
          /\ STD = [i \in DOMAIN source.std |-> Seconds(source.std[i].m)]
          /\ LABELS = source.labels
    /\ preempts = 0 =>
          \A k \in Rendered : files[CALLS[k].name] = Png(BucketChart(k))

C10_Witness ==
    /\ toppc = TopPc("done")
    /\ preempts = 0
    /\ Rendered = CallIds
    /\ figs[1] = BucketChart(3)
    /\ files[CALLS[3].name] = Png(BucketChart(3))

\* C10 as claimed: however the statements of the calls interleave, the file
\* of each rendered bucket is the chart of that bucket, as in a sequential run.
C10_AnyInterleaving ==
    \A k \in Rendered : files[CALLS[k].name] = Png(BucketChart(k))

===========================================================================
